---- MODULE Spec2Model ----
(***************************************************************************)
(* Order persistence and retrieval of the storefront backend:              *)
(*   POST /api/pedidos   (transactional write of header, items, add-ons)   *)
(*   GET  /api/pedidos   (flattened join, reconstruction of the tree)      *)
(*   PUT  /api/pedidos   (batch status update in one transaction)          *)
(*   PUT  /api/produtos  (truncate + reinsert of the catalog)              *)
(*   GET  /api/produtos  (catalog grouped by category)                     *)
(* Every await of a handler is one step.  The database is PostgreSQL at    *)
(* READ COMMITTED: a transaction's writes are pending in tx[r] and reach   *)
(* the committed tables at COMMIT; a statement sees the committed tables.  *)
(***************************************************************************)
EXTENDS Integers, Sequences, FiniteSets, TLC

MaxItems == 2
MaxComps == 3
MaxBatch == 2
MaxProdutos == 1
MaxRows == 3
MaxJoinRows == 3

\* NULL of SQL and the falsy ids of JavaScript (null, undefined, 0)
Null == 0
\* a string field that is missing or empty, falsy in JavaScript as well
Absent == ""

\* the requests in flight together: a pair shows every interleaving of two
\* handlers, on top of what earlier requests left in the database
Reqs == {1, 2}
OrderIds == {1, 2}
CompIds == {3}
Times == {1, 2}
Pendente == "pendente"
PutStatuses == {"pronto", "entregue"}
ProdutoRows == [id : {7}, nome : {"X", "Y"}, categoria : {"A"}]

VARIABLES
  pedidos,    \* committed rows of table pedidos
  itens,      \* committed rows of table itens_do_pedido
  comps,      \* committed rows of table complementos_do_item
  produtos,   \* committed rows of table produtos, in insertion order
  pc,         \* position of each request's handler
  kind,       \* which handler serves the request
  body,       \* the part of req.body the handler has consumed so far
  tx,         \* pending writes of the request's transaction
  resp,       \* HTTP status sent for the request (Null: none yet)
  held,       \* requests whose client is checked out of the pool
  released,   \* number of client.release() calls of each request
  alive,      \* the node process is running
  getResp,    \* the answer a GET /api/pedidos has just sent: its status, the
              \* rows its SELECT returned and the orders of its body
  prodResp    \* the answer a GET /api/produtos has just sent: its status, the
              \* rows its SELECT returned and the groups of its body

vars == <<pedidos, itens, comps, produtos, pc, kind, body, tx, resp, held,
          released, alive, getResp, prodResp>>

dbVars == <<pedidos, itens, comps, produtos>>

\* What a handler has read of req.body so far: of an order its id, its
\* status field (in `order`) and, for every item read, the ids of the
\* add-ons read; of a status batch the number
\* of turns of the loop and the entry of the current turn; of a catalog the
\* products read; and what threw, once the handler is in its catch block.
\* NoBody before the first read and after the handler returned.
NoBody == [orderId |-> Null, items |-> <<>>, turns |-> 0,
           order |-> [orderId |-> Null, status |-> Absent], products |-> <<>>,
           threw |-> "none"]

NoResp == [code |-> Null, rows |-> <<>>, orders |-> <<>>]

NoProdResp == [code |-> Null, rows |-> <<>>, grupos |-> <<>>]

EmptyTx == [pedidos |-> {}, itens |-> {}, comps |-> {},
            status |-> [o \in OrderIds |-> Absent],
            truncated |-> FALSE, produtos |-> <<>>]

Others(r) == Reqs \ {r}

Max(S) == IF S = {} THEN 0 ELSE CHOOSE m \in S : \A x \in S : x <= m

\* id_item_pedido is generated by the table's sequence: larger than every id
\* handed out before that is still stored or pending
NextItemId ==
  1 + Max({i.id_item_pedido : i \in itens}
          \cup UNION {{i.id_item_pedido : i \in tx[q].itens} : q \in Reqs})

RECURSIVE Sum(_, _)
Sum(f, S) ==
  IF S = {} THEN 0
  ELSE LET x == CHOOSE y \in S : TRUE IN f[x] + Sum(f, S \ {x})

\* rows of itens_do_pedido and complementos_do_item, stored or pending
StoredItems ==
  Cardinality(itens) + Sum([q \in Reqs |-> Cardinality(tx[q].itens)], Reqs)

StoredComps ==
  Cardinality(comps) + Sum([q \in Reqs |-> Cardinality(tx[q].comps)], Reqs)

\* entries and products the PUT requests have read from their bodies so far
SentEntries == Sum([q \in Reqs |-> body[q].turns], Reqs)

SentProdutos == Sum([q \in Reqs |-> Len(body[q].products)], Reqs)

\* The database as an earlier run of this API left it: order 1, placed at time
\* 1 and still pending, with one item that carries one add-on (written by a
\* request that is over: number 0), and a catalog of one product.
Init ==
  /\ pedidos = {[id_pedido |-> 1, nome_cliente |-> 0, status |-> Pendente,
                 data_hora_envio |-> 1]}
  /\ itens = {[id_item_pedido |-> 1, id_pedido |-> 1,
               nome_produto |-> <<0, 1>>]}
  /\ comps = {[id_item_pedido |-> 1, id_complemento_disponivel |-> 3,
               nome_complemento |-> <<0, 1, 1>>]}
  /\ produtos = <<[id |-> 7, nome |-> "X", categoria |-> "A"]>>
  /\ pc = [r \in Reqs |-> "idle"]
  /\ kind = [r \in Reqs |-> "none"]
  /\ body = [r \in Reqs |-> NoBody]
  /\ tx = [r \in Reqs |-> EmptyTx]
  /\ resp = [r \in Reqs |-> Null]
  /\ held = {}
  /\ released = [r \in Reqs |-> 0]
  /\ alive = TRUE
  /\ getResp = NoResp
  /\ prodResp = NoProdResp

(***************************************************************************)
(* Shared shape of the three transactional handlers                        *)
(***************************************************************************)

\* process.on('unhandledRejection', ...) calls process.exit(1): the handler
\* of r ends at `how`, every handler still running is killed with it, the
\* pool is gone and the server drops the transactions that were open
Exit(r, how) ==
  /\ alive' = FALSE
  /\ pc' = [q \in Reqs |-> IF q = r THEN how
                           ELSE IF pc[q] \in {"idle", "done"} THEN pc[q]
                           ELSE "killed"]
  /\ tx' = [q \in Reqs |-> EmptyTx]
  /\ body' = [q \in Reqs |-> NoBody]
  /\ held' = {}
  /\ getResp' = NoResp
  /\ prodResp' = NoProdResp

\* const client = await db.getClient(): outside the try block.  A rejection
\* leaves the async handler rejected with nothing to catch it.
Acquire(r, k, ok) ==
  /\ alive
  /\ pc[r] = "idle"
  /\ kind' = [kind EXCEPT ![r] = k]
  /\ IF ok
       THEN /\ pc' = [pc EXCEPT ![r] = "begin"]
            /\ held' = held \cup {r}
            /\ getResp' = NoResp
            /\ prodResp' = NoProdResp
            /\ UNCHANGED <<body, tx, alive>>
       ELSE Exit(r, "noclient")
  /\ UNCHANGED <<dbVars, resp, released>>

\* the handler moves on to its next await
Goto(r, next) ==
  /\ pc' = [pc EXCEPT ![r] = next]
  /\ getResp' = NoResp
  /\ prodResp' = NoProdResp
  /\ UNCHANGED <<kind, resp, held, released, alive>>

\* an exception inside try: control goes to the catch block.  `why` tells
\* what threw: "begin", "commit" or "query" for a rejected statement,
\* "malformed" for a body the JavaScript of the handler cannot read.
Throw(r, why) ==
  /\ Goto(r, "rollback")
  /\ body' = [body EXCEPT ![r].threw = why]
  /\ UNCHANGED <<dbVars, tx>>

\* await client.query('BEGIN')
Begin(r, k, next, ok) ==
  /\ alive
  /\ kind[r] = k
  /\ pc[r] = "begin"
  /\ IF ok THEN Goto(r, next) /\ UNCHANGED <<dbVars, body, tx>>
           ELSE Throw(r, "begin")

\* PedidosAfter in which a status committed by another transaction since
\* the order was placed is kept: the first committer wins
PedidosAfterFirstWins(r) ==
  {[p EXCEPT !.status = IF tx[r].status[p.id_pedido] = Absent
                             \/ p.status # Pendente
                          THEN p.status ELSE tx[r].status[p.id_pedido]]
     : p \in pedidos} \cup tx[r].pedidos

\* the committed tables after the transaction of r is applied to them
PedidosAfter(r) ==
  {[p EXCEPT !.status = IF tx[r].status[p.id_pedido] = Absent
                          THEN p.status ELSE tx[r].status[p.id_pedido]]
     : p \in pedidos} \cup tx[r].pedidos

ProdutosAfter(r) ==
  IF tx[r].truncated THEN tx[r].produtos ELSE produtos

\* await client.query('COMMIT'); res.status(code).json(...); then the
\* finally block: client.release()
Commit(r, k, code, ok) ==
  /\ alive
  /\ kind[r] = k
  /\ pc[r] = "commit"
  /\ IF ok
       THEN /\ pedidos' = PedidosAfter(r)
            /\ itens' = itens \cup tx[r].itens
            /\ comps' = comps \cup tx[r].comps
            /\ produtos' = ProdutosAfter(r)
            /\ tx' = [tx EXCEPT ![r] = EmptyTx]
            /\ resp' = [resp EXCEPT ![r] = code]
            /\ pc' = [pc EXCEPT ![r] = "done"]
            /\ body' = [body EXCEPT ![r] = NoBody]
            /\ held' = held \ {r}
            /\ released' = [released EXCEPT ![r] = @ + 1]
            /\ getResp' = NoResp
            /\ prodResp' = NoProdResp
            /\ UNCHANGED <<kind, alive>>
       ELSE Throw(r, "commit")

\* Rollback with COMMIT sent in the catch block instead of ROLLBACK
RollbackCommits(r, k, ok) ==
  /\ alive
  /\ kind[r] = k
  /\ pc[r] = "rollback"
  /\ pedidos' = PedidosAfter(r)
  /\ itens' = itens \cup tx[r].itens
  /\ comps' = comps \cup tx[r].comps
  /\ produtos' = ProdutosAfter(r)
  /\ released' = [released EXCEPT ![r] = @ + 1]
  /\ IF ok
       THEN /\ tx' = [tx EXCEPT ![r] = EmptyTx]
            /\ body' = [body EXCEPT ![r] = NoBody]
            /\ held' = held \ {r}
            /\ resp' = [resp EXCEPT ![r] = 500]
            /\ pc' = [pc EXCEPT ![r] = "done"]
            /\ getResp' = NoResp
            /\ prodResp' = NoProdResp
            /\ alive' = alive
       ELSE /\ Exit(r, "crashed")
            /\ resp' = resp
  /\ UNCHANGED kind

\* Rollback with client.release() at the end of the try block only
RollbackNoRelease(r, k, ok) ==
  /\ alive
  /\ kind[r] = k
  /\ pc[r] = "rollback"
  /\ IF ok
       THEN /\ tx' = [tx EXCEPT ![r] = EmptyTx]
            /\ body' = [body EXCEPT ![r] = NoBody]
            /\ resp' = [resp EXCEPT ![r] = 500]
            /\ pc' = [pc EXCEPT ![r] = "done"]
            /\ getResp' = NoResp
            /\ prodResp' = NoProdResp
            /\ UNCHANGED <<held, alive>>
       ELSE /\ Exit(r, "crashed")
            /\ resp' = resp
  /\ UNCHANGED <<dbVars, kind, released>>

\* catch: await client.query('ROLLBACK'); res.status(500).json(...); then the
\* finally block: client.release().  When ROLLBACK itself rejects, the catch
\* block throws: finally still releases the client, no answer is sent and
\* the rejection is unhandled.
Rollback(r, k, ok) ==
  /\ alive
  /\ kind[r] = k
  /\ pc[r] = "rollback"
  /\ released' = [released EXCEPT ![r] = @ + 1]
  /\ IF ok
       THEN /\ tx' = [tx EXCEPT ![r] = EmptyTx]
            /\ body' = [body EXCEPT ![r] = NoBody]
            /\ held' = held \ {r}
            /\ resp' = [resp EXCEPT ![r] = 500]
            /\ pc' = [pc EXCEPT ![r] = "done"]
            /\ getResp' = NoResp
            /\ prodResp' = NoProdResp
            /\ alive' = alive
       ELSE /\ Exit(r, "crashed")
            /\ resp' = resp
  /\ UNCHANGED <<dbVars, kind>>

(***************************************************************************)
(* POST /api/pedidos                                                       *)
(***************************************************************************)

PostAcquire(r) == \E ok \in BOOLEAN : Acquire(r, "post", ok)

PostBegin(r) == \E ok \in BOOLEAN : Begin(r, "post", "header", ok)

\* StatusOrDefault that stores the default whatever was submitted
StatusAlwaysDefault(st) == Pendente

\* status || 'pendente'
StatusOrDefault(st) == IF st = Absent THEN Pendente ELSE st

\* InsertPedido without the ON CONFLICT clause taking effect
InsertPedidoAlways(r, row) == {row}

\* INSERT INTO pedidos ... ON CONFLICT (id_pedido) DO NOTHING, seen from the
\* transaction of r: the rows it adds to its pending header rows
InsertPedido(r, row) ==
  IF \E p \in pedidos : p.id_pedido = row.id_pedido THEN {} ELSE {row}

\* the unique index makes the insert wait while another open transaction
\* holds an uncommitted row with the same id_pedido
InsertPedidoWaits(r, oid) ==
  \E q \in Others(r) : \E p \in tx[q].pedidos : p.id_pedido = oid

\* destructuring of req.body and the header insert.  nome_cliente stands for
\* every header value copied verbatim from the payload (customer, delivery,
\* payment, total): it is the number of the request, so two submissions
\* never carry the same values.
PostHeader(r) ==
  /\ alive
  /\ kind[r] = "post"
  /\ pc[r] = "header"
  /\ \/ Throw(r, "malformed")           \* deliveryOption.type of undefined
     \/ Throw(r, "query")               \* the INSERT is rejected
     \/ \E oid \in OrderIds, st \in {Absent, "pronto"}, ts \in Times :
          /\ ~InsertPedidoWaits(r, oid)
          /\ body' = [body EXCEPT ![r].orderId = oid,
                                  ![r].order = [orderId |-> oid, status |-> st]]
          /\ tx' = [tx EXCEPT ![r].pedidos = @ \cup InsertPedido(r,
                      [id_pedido |-> oid, nome_cliente |-> r,
                       status |-> StatusOrDefault(st),
                       data_hora_envio |-> ts])]
          /\ Goto(r, "items")
          /\ UNCHANGED dbVars

\* INSERT INTO itens_do_pedido ... RETURNING id_item_pedido.  nome_produto
\* stands for the snapshot values of the item (product name and prices):
\* the number of the request and the place of the item in its list.
InsertItem(r, n) ==
  {[id_item_pedido |-> NextItemId, id_pedido |-> body[r].orderId,
    nome_produto |-> <<r, n>>]}

\* PostItem with the INSERT sent through the pool (db.query) instead of the
\* client of the transaction: the row is committed at once
PostItemAutocommit(r) ==
  /\ alive
  /\ kind[r] = "post"
  /\ pc[r] = "items"
  /\ \/ Throw(r, "malformed")
     \/ Throw(r, "query")
     \/ /\ Goto(r, "commit")
        /\ UNCHANGED <<dbVars, body, tx>>
     \/ /\ StoredItems < MaxItems
        /\ itens' = itens \cup InsertItem(r, Len(body[r].items) + 1)
        /\ body' = [body EXCEPT ![r].items = Append(@, <<>>)]
        /\ Goto(r, "comps")
        /\ UNCHANGED <<pedidos, comps, produtos, tx>>

\* one turn of `for (const item of items)`
PostItem(r) ==
  /\ alive
  /\ kind[r] = "post"
  /\ pc[r] = "items"
  /\ \/ Throw(r, "malformed")           \* items is not iterable, or the
                                        \* item is null: item.productId throws
     \/ Throw(r, "query")               \* the INSERT is rejected
     \/ /\ Goto(r, "commit")            \* the list is exhausted
        /\ UNCHANGED <<dbVars, body, tx>>
     \/ /\ StoredItems < MaxItems
        /\ tx' = [tx EXCEPT ![r].itens =
                    @ \cup InsertItem(r, Len(body[r].items) + 1)]
        /\ body' = [body EXCEPT ![r].items = Append(@, <<>>)]
        /\ Goto(r, "comps")
        /\ UNCHANGED dbVars

\* InsertedItemId read as the largest id of the table instead of the row
\* that RETURNING gave back
InsertedItemIdLargest(r) == NextItemId - 1

\* const insertedItemId = itemResult.rows[0].id_item_pedido
InsertedItemId(r) == Max({i.id_item_pedido : i \in tx[r].itens})

\* INSERT INTO complementos_do_item.  nome_complemento stands for the
\* snapshot values of the add-on (name and price): the number of the
\* request and the places of the item and of the add-on in their lists.
InsertComp(r, c, n, m) ==
  {[id_item_pedido |-> InsertedItemId(r), id_complemento_disponivel |-> c,
    nome_complemento |-> <<r, n, m>>]}

\* one turn of `for (const comp of item.complements)`
PostComp(r) ==
  /\ alive
  /\ kind[r] = "post"
  /\ pc[r] = "comps"
  /\ LET n == Len(body[r].items)
         m == Len(body[r].items[n]) IN
       \/ Throw(r, "malformed")         \* item.complements is not iterable,
                                        \* or the add-on is null
       \/ Throw(r, "query")             \* the INSERT is rejected
       \/ /\ Goto(r, "items")           \* the list is exhausted
          /\ UNCHANGED <<dbVars, body, tx>>
       \/ /\ StoredComps < MaxComps
          /\ \E c \in CompIds :
               /\ tx' = [tx EXCEPT ![r].comps =
                           @ \cup InsertComp(r, c, n, m + 1)]
               /\ body' = [body EXCEPT ![r].items[n] = Append(@, c)]
          /\ Goto(r, "comps")
          /\ UNCHANGED dbVars

PostCommit(r) == \E ok \in BOOLEAN : Commit(r, "post", 201, ok)

PostRollback(r) == \E ok \in BOOLEAN : Rollback(r, "post", ok)

(***************************************************************************)
(* PUT /api/pedidos                                                        *)
(***************************************************************************)

PutPedAcquire(r) == \E ok \in BOOLEAN : Acquire(r, "putPedidos", ok)

PutPedBegin(r) == \E ok \in BOOLEAN : Begin(r, "putPedidos", "entries", ok)

\* the entries of a batch: every pair of an order id and a status, an entry
\* without orderId and an entry without status
Entries ==
  [orderId : OrderIds, status : PutStatuses]
    \cup {[orderId |-> Null, status |-> "pronto"],
          [orderId |-> 1, status |-> Absent]}

\* order.orderId && order.status
EntryValid(e) == e.orderId # Null /\ e.status # Absent

\* UpdateStatus without the WHERE clause
UpdateStatusAll(r, e) ==
  [o \in OrderIds |->
     IF \E p \in pedidos : p.id_pedido = o THEN e.status ELSE tx[r].status[o]]

\* UPDATE pedidos SET status = $1 WHERE id_pedido = $2, seen from the
\* transaction of r: the pending status it holds for every order id.  The
\* statement sees the committed rows only; an id without a row updates none.
UpdateStatus(r, e) ==
  [o \in OrderIds |->
     IF o = e.orderId /\ \E p \in pedidos : p.id_pedido = o
       THEN e.status ELSE tx[r].status[o]]

\* the row lock makes the UPDATE wait while another open transaction holds
\* an uncommitted update of the same row
UpdateWaits(r, e) ==
  \E q \in Others(r) : tx[q].status[e.orderId] # Absent

\* Array.isArray(updatedOrders) before the first turn, then one turn of
\* `for (const order of updatedOrders)`
PutPedEntry(r) ==
  /\ alive
  /\ kind[r] = "putPedidos"
  /\ pc[r] = "entries"
  /\ \/ /\ body[r].turns = 0            \* the body is not an array
        /\ Throw(r, "malformed")
     \/ /\ Goto(r, "commit")            \* the list is exhausted
        /\ UNCHANGED <<dbVars, body, tx>>
     \/ /\ SentEntries < MaxBatch
        /\ \E e \in Entries :
             \/ /\ ~EntryValid(e)       \* console.warn, nothing else
                /\ body' = [body EXCEPT ![r].turns = @ + 1, ![r].order = e]
                /\ Goto(r, "entries")
                /\ UNCHANGED <<dbVars, tx>>
             \/ /\ EntryValid(e)        \* the UPDATE is rejected
                /\ Throw(r, "query")
             \/ /\ EntryValid(e)
                /\ ~UpdateWaits(r, e)
                /\ body' = [body EXCEPT ![r].turns = @ + 1, ![r].order = e]
                /\ tx' = [tx EXCEPT ![r].status = UpdateStatus(r, e)]
                /\ Goto(r, "entries")
                /\ UNCHANGED dbVars

PutPedCommit(r) == \E ok \in BOOLEAN : Commit(r, "putPedidos", 200, ok)

PutPedRollback(r) == \E ok \in BOOLEAN : Rollback(r, "putPedidos", ok)

(***************************************************************************)
(* PUT /api/produtos                                                       *)
(***************************************************************************)

PutProdAcquire(r) == \E ok \in BOOLEAN : Acquire(r, "putProdutos", ok)

PutProdBegin(r) == \E ok \in BOOLEAN : Begin(r, "putProdutos", "truncate", ok)

\* TRUNCATE TABLE produtos RESTART IDENTITY: empties the table of produtos
\* for the transaction; the order tables are not named
Truncate(t) == [t EXCEPT !.truncated = TRUE, !.produtos = <<>>]

\* TRUNCATE needs the exclusive lock of the table, which another open
\* transaction that has truncated it keeps until it ends
TruncateWaits(r) == \E q \in Others(r) : tx[q].truncated

PutProdTruncate(r) ==
  /\ alive
  /\ kind[r] = "putProdutos"
  /\ pc[r] = "truncate"
  /\ \/ Throw(r, "query")               \* the TRUNCATE is rejected
     \/ /\ ~TruncateWaits(r)
        /\ tx' = [tx EXCEPT ![r] = Truncate(@)]
        /\ Goto(r, "products")
        /\ UNCHANGED <<dbVars, body>>

\* one turn of the nested loops over allProducts[categoryKey]
PutProdInsert(r) ==
  /\ alive
  /\ kind[r] = "putProdutos"
  /\ pc[r] = "products"
  /\ \/ Throw(r, "malformed")           \* allProducts[categoryKey] is not
                                        \* iterable
     \/ Throw(r, "query")               \* the INSERT is rejected
     \/ /\ Goto(r, "commit")            \* the body is exhausted
        /\ UNCHANGED <<dbVars, body, tx>>
     \/ /\ SentProdutos < MaxProdutos
        /\ \E p \in ProdutoRows :
             /\ body' = [body EXCEPT ![r].products = Append(@, p)]
             /\ tx' = [tx EXCEPT ![r].produtos = Append(@, p)]
        /\ Goto(r, "products")
        /\ UNCHANGED dbVars

PutProdCommit(r) == \E ok \in BOOLEAN : Commit(r, "putProdutos", 200, ok)

PutProdRollback(r) == \E ok \in BOOLEAN : Rollback(r, "putProdutos", ok)

(***************************************************************************)
(* GET /api/pedidos                                                        *)
(***************************************************************************)

\* JoinRow with the product name read from the catalog instead of the
\* snapshot stored with the item
JoinRowCatalogName(p, i, c) ==
  [id_pedido |-> p.id_pedido, nome_cliente |-> p.nome_cliente,
   status |-> p.status, data_hora_envio |-> p.data_hora_envio,
   id_item_pedido |-> IF i = <<>> THEN Null ELSE i.id_item_pedido,
   nome_produto |-> IF produtos = <<>> THEN "" ELSE produtos[1].nome,
   id_complemento_disponivel |->
     IF c = <<>> THEN Null ELSE c.id_complemento_disponivel,
   nome_complemento |-> IF c = <<>> THEN <<>> ELSE c.nome_complemento]

\* one row of the SELECT: the columns of an order, of one of its items (or
\* NULLs) and of one add-on of that item (or NULLs)
JoinRow(p, i, c) ==
  [id_pedido |-> p.id_pedido, nome_cliente |-> p.nome_cliente,
   status |-> p.status, data_hora_envio |-> p.data_hora_envio,
   id_item_pedido |-> IF i = <<>> THEN Null ELSE i.id_item_pedido,
   nome_produto |-> IF i = <<>> THEN <<>> ELSE i.nome_produto,
   id_complemento_disponivel |->
     IF c = <<>> THEN Null ELSE c.id_complemento_disponivel,
   nome_complemento |-> IF c = <<>> THEN <<>> ELSE c.nome_complemento]

\* pedidos p LEFT JOIN itens_do_pedido i LEFT JOIN complementos_do_item c
JoinRows ==
  UNION {
    LET is == {i \in itens : i.id_pedido = p.id_pedido} IN
    IF is = {} THEN {JoinRow(p, <<>>, <<>>)}
    ELSE UNION {
      LET cs == {c \in comps : c.id_item_pedido = i.id_item_pedido} IN
      IF cs = {} THEN {JoinRow(p, i, <<>>)}
      ELSE {JoinRow(p, i, c) : c \in cs}
      : i \in is}
    : p \in pedidos}

\* ascending keys put NULL last
NullsLast(id) == IF id = Null THEN 1000 ELSE id

\* the place of a row among the rows ORDER BY leaves tied
Physical(row) ==
  100 * row.id_pedido + 10 * row.nome_cliente
    + (IF row.nome_complemento = <<>> THEN 0 ELSE row.nome_complemento[3])

\* Before without DESC on the first key
BeforeAscending(a, b, fwd) ==
  IF a.data_hora_envio # b.data_hora_envio
    THEN a.data_hora_envio < b.data_hora_envio
  ELSE IF a.id_item_pedido # b.id_item_pedido
    THEN NullsLast(a.id_item_pedido) < NullsLast(b.id_item_pedido)
  ELSE IF a.id_complemento_disponivel # b.id_complemento_disponivel
    THEN NullsLast(a.id_complemento_disponivel)
           < NullsLast(b.id_complemento_disponivel)
  ELSE IF fwd THEN Physical(a) < Physical(b) ELSE Physical(a) > Physical(b)

\* ORDER BY p.data_hora_envio DESC, i.id_item_pedido,
\* c.id_complemento_disponivel; tied rows come in the order the scan yields
\* them, forwards or backwards
Before(a, b, fwd) ==
  IF a.data_hora_envio # b.data_hora_envio
    THEN a.data_hora_envio > b.data_hora_envio
  ELSE IF a.id_item_pedido # b.id_item_pedido
    THEN NullsLast(a.id_item_pedido) < NullsLast(b.id_item_pedido)
  ELSE IF a.id_complemento_disponivel # b.id_complemento_disponivel
    THEN NullsLast(a.id_complemento_disponivel)
           < NullsLast(b.id_complemento_disponivel)
  ELSE IF fwd THEN Physical(a) < Physical(b) ELSE Physical(a) > Physical(b)

RECURSIVE OrderBy(_, _)
OrderBy(S, fwd) ==
  IF S = {} THEN <<>>
  ELSE LET first == CHOOSE a \in S : \A b \in S \ {a} : Before(a, b, fwd)
       IN <<first>> \o OrderBy(S \ {first}, fwd)

\* ordersMap.has(row.id_pedido)
HasOrder(orders, id) == \E k \in DOMAIN orders : orders[k].orderId = id

\* order.items.some(item => item.id_item_pedido === row.id_item_pedido)
HasItem(items, id) == \E k \in DOMAIN items : items[k].id_item_pedido = id

\* HasComp that never finds the add-on: no deduplication of add-ons
HasCompNever(cs, id) == FALSE

\* currentItem.complements.some(comp => comp.id ===
\* row.id_complemento_disponivel)
HasComp(cs, id) == \E k \in DOMAIN cs : cs[k].id = id

\* the body of result.rows.forEach: the orders after one more row
AddRow(orders, row) ==
  LET withOrder ==
        IF HasOrder(orders, row.id_pedido) THEN orders
        ELSE Append(orders,
               [orderId |-> row.id_pedido, customerName |-> row.nome_cliente,
                status |-> row.status, sentAt |-> row.data_hora_envio,
                items |-> <<>>])
      k == CHOOSE j \in DOMAIN withOrder :
             withOrder[j].orderId = row.id_pedido
      items0 == withOrder[k].items
      items1 ==
        IF row.id_item_pedido # Null /\ ~HasItem(items0, row.id_item_pedido)
          THEN Append(items0,
                 [id_item_pedido |-> row.id_item_pedido,
                  name |-> row.nome_produto, complements |-> <<>>])
          ELSE items0
      items2 ==
        IF row.id_complemento_disponivel # Null
             /\ HasItem(items1, row.id_item_pedido)
          THEN LET c == CHOOSE j \in DOMAIN items1 :
                          /\ items1[j].id_item_pedido = row.id_item_pedido
                          /\ \A h \in 1..(j - 1) :
                               items1[h].id_item_pedido # row.id_item_pedido
               IN IF HasComp(items1[c].complements,
                             row.id_complemento_disponivel)
                    THEN items1
                    ELSE [items1 EXCEPT ![c].complements =
                            Append(@, [id |-> row.id_complemento_disponivel,
                                       name |-> row.nome_complemento])]
          ELSE items1
  IN [withOrder EXCEPT ![k].items = items2]

\* Array.from(ordersMap.values()) after the rows were folded in
RECURSIVE Reconstruct(_, _)
Reconstruct(orders, rows) ==
  IF rows = <<>> THEN orders
  ELSE Reconstruct(AddRow(orders, Head(rows)), Tail(rows))

\* what the handler answers with when its SELECT succeeds
Answer(fwd) ==
  [code |-> 200, rows |-> OrderBy(JoinRows, fwd),
   orders |-> Reconstruct(<<>>, OrderBy(JoinRows, fwd))]

\* the handler: one SELECT on the pool, then the reconstruction; 500 when
\* the SELECT is rejected
GetPedidos ==
  /\ alive
  /\ \/ getResp' = [code |-> 500, rows |-> <<>>, orders |-> <<>>]
     \/ \E fwd \in BOOLEAN : getResp' = Answer(fwd)
  /\ prodResp' = NoProdResp
  /\ UNCHANGED <<dbVars, pc, kind, body, tx, resp, held, released, alive>>

(***************************************************************************)
(* GET /api/produtos                                                       *)
(***************************************************************************)

\* the place of a category in the text order of ORDER BY categoria: digits
\* sort before letters, character by character ("10" before "9")
Collate(c) ==
  CASE c = "10" -> 1 [] c = "9" -> 2 [] c = "A" -> 3 [] c = "B" -> 4
    [] OTHER -> 5

\* the place of a product name in the text order of ORDER BY nome
CollateNome(n) == IF n = "X" THEN 1 ELSE 2

\* row a may stand before row b in the rows of
\* SELECT * FROM produtos ORDER BY categoria, nome
SortedBefore(a, b) ==
  \/ Collate(a.categoria) < Collate(b.categoria)
  \/ /\ a.categoria = b.categoria
     /\ CollateNome(a.nome) <= CollateNome(b.nome)

\* the table's rows as the SELECT returns them; rows that tie on both keys
\* keep the order of the table
RECURSIVE SortProdutos(_)
SortProdutos(rows) ==
  IF rows = <<>> THEN <<>>
  ELSE LET j == CHOOSE k \in DOMAIN rows :
                  /\ \A h \in DOMAIN rows : SortedBefore(rows[k], rows[h])
                  /\ \A h \in 1..(k - 1) : ~SortedBefore(rows[h], rows[k])
       IN <<rows[j]>> \o SortProdutos(SubSeq(rows, 1, j - 1)
                                        \o SubSeq(rows, j + 1, Len(rows)))

\* a property name that is a canonical array index: its number, else -1
ArrayIndex(c) == CASE c = "9" -> 9 [] c = "10" -> 10 [] OTHER -> 0 - 1

\* property names every object inherits from Object.prototype
Inherited == {"constructor"}

\* produtosAgrupados[produto.categoria] is truthy: an own property added
\* earlier, or a property inherited from Object.prototype
HasGrupo(obj, c) ==
  c \in Inherited \/ \E k \in DOMAIN obj : obj[k].categoria = c

\* one turn of result.rows.forEach; obj lists the own properties of
\* produtosAgrupados in the order they were added
AddProduto(obj, produto) ==
  LET withKey == IF HasGrupo(obj, produto.categoria) THEN obj
                 ELSE Append(obj, [categoria |-> produto.categoria,
                                   produtos |-> <<>>])
      k == CHOOSE j \in DOMAIN withKey :
             withKey[j].categoria = produto.categoria
  IN [withKey EXCEPT ![k].produtos = Append(@, produto)]

RECURSIVE Agrupar(_, _)
Agrupar(obj, rows) ==
  IF rows = <<>> THEN obj
  ELSE Agrupar(AddProduto(obj, Head(rows)), Tail(rows))

\* the own properties in the order JSON.stringify walks them: array-index
\* names in ascending numeric order first, then the other names in the
\* order they were added
RECURSIVE OwnKeys(_)
OwnKeys(obj) ==
  LET idx == {k \in DOMAIN obj : ArrayIndex(obj[k].categoria) >= 0} IN
    IF idx = {}
      THEN obj
      ELSE LET j == CHOOSE k \in idx :
                      \A h \in idx : ArrayIndex(obj[k].categoria)
                                       <= ArrayIndex(obj[h].categoria)
           IN <<obj[j]>> \o OwnKeys(SubSeq(obj, 1, j - 1)
                                      \o SubSeq(obj, j + 1, Len(obj)))

\* what the handler answers for the rows its SELECT returned: pushing onto
\* an inherited property throws inside the try block, the catch answers 500
AnswerProdutos(rows) ==
  IF \E k \in DOMAIN rows : rows[k].categoria \in Inherited
    THEN [code |-> 500, rows |-> rows, grupos |-> <<>>]
    ELSE [code |-> 200, rows |-> rows,
          grupos |-> OwnKeys(Agrupar(<<>>, rows))]

\* the SELECT waits while another transaction holds the exclusive lock that
\* TRUNCATE took on the table
SelectProdutosWaits == \E q \in Reqs : tx[q].truncated

\* the handler: one SELECT on the pool, then the grouping; 500 when the
\* SELECT is rejected
GetProdutos ==
  /\ alive
  /\ ~SelectProdutosWaits
  /\ \/ prodResp' = [code |-> 500, rows |-> <<>>, grupos |-> <<>>]
     \/ prodResp' = AnswerProdutos(SortProdutos(produtos))
  /\ getResp' = NoResp
  /\ UNCHANGED <<dbVars, pc, kind, body, tx, resp, held, released, alive>>

Next ==
  \/ \E r \in Reqs : PostAcquire(r)
  \/ \E r \in Reqs : PostBegin(r)
  \/ \E r \in Reqs : PostHeader(r)
  \/ \E r \in Reqs : PostItem(r)
  \/ \E r \in Reqs : PostComp(r)
  \/ \E r \in Reqs : PostCommit(r)
  \/ \E r \in Reqs : PostRollback(r)
  \/ \E r \in Reqs : PutPedAcquire(r)
  \/ \E r \in Reqs : PutPedBegin(r)
  \/ \E r \in Reqs : PutPedEntry(r)
  \/ \E r \in Reqs : PutPedCommit(r)
  \/ \E r \in Reqs : PutPedRollback(r)
  \/ \E r \in Reqs : PutProdAcquire(r)
  \/ \E r \in Reqs : PutProdBegin(r)
  \/ \E r \in Reqs : PutProdTruncate(r)
  \/ \E r \in Reqs : PutProdInsert(r)
  \/ \E r \in Reqs : PutProdCommit(r)
  \/ \E r \in Reqs : PutProdRollback(r)
  \/ GetPedidos
  \/ GetProdutos

Spec == Init /\ [][Next]_vars

\* The same server started on a database without orders: the budget of
\* item rows lets both requests store an item at the same time.
InitEmpty ==
  /\ pedidos = {}
  /\ itens = {}
  /\ comps = {}
  /\ produtos = <<[id |-> 7, nome |-> "X", categoria |-> "A"]>>
  /\ pc = [r \in Reqs |-> "idle"]
  /\ kind = [r \in Reqs |-> "none"]
  /\ body = [r \in Reqs |-> NoBody]
  /\ tx = [r \in Reqs |-> EmptyTx]
  /\ resp = [r \in Reqs |-> Null]
  /\ held = {}
  /\ released = [r \in Reqs |-> 0]
  /\ alive = TRUE
  /\ getResp = NoResp
  /\ prodResp = NoProdResp

SpecEmpty == InitEmpty /\ [][Next]_vars

(***************************************************************************)
(* The grouping of GET /api/produtos on its own: result.rows is any        *)
(* sequence of at most MaxRows product rows that ORDER BY categoria, nome  *)
(* can return, and the one step runs the forEach and sends the answer.     *)
(***************************************************************************)

GrupoRows ==
  [id : 1..2, nome : {"X", "Y"},
   categoria : {"10", "9", "A", "B", "constructor"}]

\* sequences in the order of ORDER BY categoria, nome (ties in any order)
ResultRows ==
  {s \in UNION {[1..n -> GrupoRows] : n \in 0..MaxRows} :
     \A j \in 1..(Len(s) - 1) : SortedBefore(s[j], s[j + 1])}

InitAgrupar ==
  /\ pedidos = {}
  /\ itens = {}
  /\ comps = {}
  /\ produtos = <<>>
  /\ pc = [r \in Reqs |-> "idle"]
  /\ kind = [r \in Reqs |-> "none"]
  /\ body = [r \in Reqs |-> NoBody]
  /\ tx = [r \in Reqs |-> EmptyTx]
  /\ resp = [r \in Reqs |-> Null]
  /\ held = {}
  /\ released = [r \in Reqs |-> 0]
  /\ alive = TRUE
  /\ getResp = NoResp
  /\ \E s \in ResultRows : prodResp = [NoProdResp EXCEPT !.rows = s]

\* result.rows.forEach(...) and res.status(200).json(produtosAgrupados), or
\* the answer of the catch block
AgruparRows ==
  /\ prodResp.code = Null
  /\ prodResp' = AnswerProdutos(prodResp.rows)
  /\ UNCHANGED <<dbVars, pc, kind, body, tx, resp, held, released, alive,
                 getResp>>

NextAgrupar == AgruparRows

SpecAgrupar == InitAgrupar /\ [][NextAgrupar]_vars

(***************************************************************************)
(* The reconstruction of GET /api/pedidos on its own: result.rows is any   *)
(* sequence of at most MaxJoinRows rows of the join, rows of different     *)
(* orders interleaved or not, and the one step runs the forEach and sends  *)
(* the answer.                                                             *)
(***************************************************************************)

\* rows the join can give: the item columns NULL, or an item with the
\* add-on columns NULL, or an item with an add-on
HeaderOf(o) ==
  [id_pedido |-> o, nome_cliente |-> o, status |-> Pendente,
   data_hora_envio |-> 1]

ItemOf(o, i) ==
  [id_item_pedido |-> i, id_pedido |-> o, nome_produto |-> <<o, i>>]

CompOf(o, i, a) ==
  [id_item_pedido |-> i, id_complemento_disponivel |-> a,
   nome_complemento |-> <<o, i, a>>]

FlatRows ==
  UNION {{JoinRow(HeaderOf(o), <<>>, <<>>)}
           \cup {JoinRow(HeaderOf(o), ItemOf(o, i), <<>>) : i \in 1..2}
           \cup {JoinRow(HeaderOf(o), ItemOf(o, ia[1]), CompOf(o, ia[1], ia[2])) :
                   ia \in (1..2) \X {3, 4}}
         : o \in OrderIds}

\* sequences of rows in which an item id belongs to one order
ResultJoinRows ==
  {s \in UNION {[1..n -> FlatRows] : n \in 0..MaxJoinRows} :
     \A j, k \in DOMAIN s :
       (s[j].id_item_pedido # Null
          /\ s[j].id_item_pedido = s[k].id_item_pedido)
         => s[j].id_pedido = s[k].id_pedido}

InitReconstruct ==
  /\ pedidos = {}
  /\ itens = {}
  /\ comps = {}
  /\ produtos = <<>>
  /\ pc = [r \in Reqs |-> "idle"]
  /\ kind = [r \in Reqs |-> "none"]
  /\ body = [r \in Reqs |-> NoBody]
  /\ tx = [r \in Reqs |-> EmptyTx]
  /\ resp = [r \in Reqs |-> Null]
  /\ held = {}
  /\ released = [r \in Reqs |-> 0]
  /\ alive = TRUE
  /\ prodResp = NoProdResp
  /\ \E s \in ResultJoinRows : getResp = [NoResp EXCEPT !.rows = s]

\* result.rows.forEach(...) and
\* res.status(200).json(Array.from(ordersMap.values()))
ReconstructRows ==
  /\ getResp.code = Null
  /\ getResp' = [code |-> 200, rows |-> getResp.rows,
                 orders |-> Reconstruct(<<>>, getResp.rows)]
  /\ UNCHANGED <<dbVars, pc, kind, body, tx, resp, held, released, alive,
                 prodResp>>

NextReconstruct == ReconstructRows

SpecReconstruct == InitReconstruct /\ [][NextReconstruct]_vars

(***************************************************************************)
(* Properties                                                              *)
(***************************************************************************)

\* the order tables hold a row that request r wrote
Wrote(r) ==
  \/ \E p \in pedidos : p.nome_cliente = r
  \/ \E i \in itens : i.nome_produto[1] = r
  \/ \E c \in comps : c.nome_complemento[1] = r

\* the transaction of r holds a header, an item and an add-on not committed
PendingTree(r) ==
  tx[r].pedidos # {} /\ tx[r].itens # {} /\ tx[r].comps # {}

\* C1: all-or-nothing order submission.  The order tables hold rows written
\* by a request only if that request was answered 201, and every step of a
\* POST /api/pedidos that does not end it with 201 (an insert, a failure at
\* any step, the rollback) leaves the three order tables exactly as they were.
AllOrNothing ==
  [][\A r \in Reqs :
       /\ Wrote(r)' => resp'[r] = 201
       /\ (kind[r] = "post" /\ pc'[r] # pc[r] /\ resp'[r] # 201)
            => UNCHANGED <<pedidos, itens, comps>>]_vars

\* C1 witness: a submission failed at an insert or at a malformed item or
\* add-on after its header, an item and an add-on had been inserted
FailedPartway ==
  \E r \in Reqs :
    /\ kind[r] = "post"
    /\ pc[r] = "rollback"
    /\ body[r].threw \in {"query", "malformed"}
    /\ PendingTree(r)

\* C3: insert-or-ignore on the order id.  The order table never holds two
\* header rows with one id, and no step of a POST /api/pedidos changes or
\* removes a header row that is stored: a submission with a stored id leaves
\* every field of the stored header as the first submission wrote it.
HeaderIdempotent ==
  [][/\ \A p, q \in pedidos' : p.id_pedido = q.id_pedido => p = q
     /\ \A r \in Reqs :
          (kind[r] = "post" /\ pc'[r] # pc[r]) => pedidos \subseteq pedidos']_vars

\* C3 witness: a submission with the id of the stored order 1 was answered
\* 201 and the header of order 1 is the one the first submission wrote
ResubmittedHeaderKept ==
  \E r \in Reqs :
    /\ kind[r] = "post"
    /\ resp[r] = 201
    /\ \E i \in itens : i.id_pedido = 1 /\ i.nome_produto[1] = r
    /\ \E p \in pedidos : p.id_pedido = 1 /\ p.nome_cliente = 0

\* C2, as claimed: write/read round trip.  When a submission with N items,
\* the n-th with Mn add-ons, is answered 201, a GET /api/pedidos that follows
\* returns an entry with its order id that has exactly N items, the n-th
\* with exactly Mn add-ons.
RoundTrip ==
  [][\A r \in Reqs :
       (kind[r] = "post" /\ pc[r] = "commit" /\ resp'[r] = 201) =>
         \A fwd \in BOOLEAN :
           LET out == Answer(fwd)'.orders IN
             \E k \in DOMAIN out :
               /\ out[k].orderId = body[r].orderId
               /\ Len(out[k].items) = Len(body[r].items)
               /\ \A n \in DOMAIN body[r].items :
                    Len(out[k].items[n].complements) = Len(body[r].items[n])]_vars

\* C4, as claimed: duplicate submissions are dropped, not merged.  Every
\* item stored under an order id was written by the submission that wrote
\* the header of that order.
NotMerged ==
  \A p \in pedidos : \A i \in itens :
    i.id_pedido = p.id_pedido => i.nome_produto[1] = p.nome_cliente

\* the answer of the GET shows a header, an item or an add-on written by r
ShownBy(r) ==
  \E k \in DOMAIN getResp.orders :
    \/ getResp.orders[k].customerName = r
    \/ \E n \in DOMAIN getResp.orders[k].items :
         \/ getResp.orders[k].items[n].name[1] = r
         \/ \E m \in DOMAIN getResp.orders[k].items[n].complements :
              getResp.orders[k].items[n].complements[m].name[1] = r

InFlight == {"begin", "header", "items", "comps", "entries", "truncate",
             "products", "commit", "rollback"}

\* C5: isolation of an order being written.  While a POST /api/pedidos is
\* between BEGIN and COMMIT (or has failed), the answer of a GET /api/pedidos
\* shows no header, item or add-on written by it; and when an answer shows
\* anything of a submission, the rows the GET has read hold every item and
\* every add-on that submission wrote.
Isolation ==
  getResp.code = 200 =>
    \A r \in Reqs :
      /\ (pc[r] # "done" \/ resp[r] # 201) => ~ShownBy(r)
      /\ ShownBy(r) =>
           /\ \A i \in itens : i.nome_produto[1] = r =>
                \E k \in DOMAIN getResp.orders :
                  \E n \in DOMAIN getResp.orders[k].items :
                    getResp.orders[k].items[n].name = i.nome_produto
           /\ \A c \in comps : c.nome_complemento[1] = r =>
                \E j \in DOMAIN getResp.rows :
                  getResp.rows[j].nome_complemento = c.nome_complemento

\* C5 witness: a GET is answered while a submission holds a header, an item
\* and an add-on that it has not committed
ReadDuringWrite ==
  /\ getResp.code = 200
  /\ \E r \in Reqs : kind[r] = "post" /\ pc[r] \in InFlight /\ PendingTree(r)

\* C6: guaranteed connection release.  A request holds its client from
\* getClient to the end of its handler and releases it exactly once on every
\* way out (commit, a failure before or during the statements, a failed
\* COMMIT, a failed ROLLBACK); no client is held once the requests are over.
ReleasedOnce ==
  \A r \in Reqs :
    /\ pc[r] \in InFlight => (r \in held /\ released[r] = 0)
    /\ pc[r] \in {"done", "crashed"} => (r \notin held /\ released[r] = 1)
    /\ pc[r] \in {"idle", "noclient"} => (r \notin held /\ released[r] = 0)

\* C6 witness: one request committed, another failed and rolled back, and
\* the pool has every client back
BothReleased ==
  \E r, q \in Reqs :
    /\ pc[r] = "done" /\ resp[r] \in {200, 201}
    /\ pc[q] = "done" /\ resp[q] = 500
    /\ kind[r] # kind[q]
    /\ held = {}

StoredIds == {p.id_pedido : p \in pedidos}

\* the status of the stored order o as the transaction of r sees it
Seen(r, o) ==
  IF tx[r].status[o] # Absent THEN tx[r].status[o]
  ELSE (CHOOSE p \in pedidos : p.id_pedido = o).status

\* C7: per-entry validation skip in the batch status update.  A turn of the
\* loop on an entry with orderId and status sets the status of that order to
\* the given value and leaves every other order alone; a turn on an entry
\* that lacks one of them changes nothing and the handler goes on to the
\* next entry; the COMMIT that follows stores the statuses so set and is
\* answered 200.
StatusBatch ==
  [][\A r \in Reqs :
       /\ (kind[r] = "putPedidos" /\ pc[r] = "entries"
             /\ body'[r].turns = body[r].turns + 1) =>
            /\ pc'[r] = "entries"
            /\ pedidos' = pedidos
            /\ \A o \in StoredIds :
                 Seen(r, o)' = IF EntryValid(body'[r].order)
                                    /\ o = body'[r].order.orderId
                                 THEN body'[r].order.status
                                 ELSE Seen(r, o)
       /\ (kind[r] = "putPedidos" /\ pc[r] = "commit" /\ pc'[r] = "done") =>
            /\ resp'[r] = 200
            /\ pedidos' = {[p EXCEPT !.status = Seen(r, p.id_pedido)] :
                             p \in pedidos}]_vars

\* C7 witness: a batch of a valid entry for the stored order 1 and an entry
\* that lacks a field has gone through the loop and is about to commit
BatchWithSkippedEntry ==
  \E r \in Reqs :
    /\ kind[r] = "putPedidos"
    /\ pc[r] = "commit"
    /\ body[r].turns = 2
    /\ ~EntryValid(body[r].order)
    /\ tx[r].status[1] # Absent

\* C8, as claimed: all-or-nothing batch status update.  When an UPDATE of the
\* batch is rejected or the body is not a list, the handler leaves its catch
\* block with no status changed and with the answer 500.
BatchAllOrNothing ==
  [][\A r \in Reqs :
       (kind[r] = "putPedidos" /\ pc[r] = "rollback"
          /\ body[r].threw \in {"query", "malformed"} /\ pc'[r] # "rollback") =>
         (pedidos' = pedidos /\ resp'[r] = 500)]_vars

\* C9: snapshot immunity of placed orders.  No step of a PUT /api/produtos,
\* committing or rolling back, changes a row of the order, item or add-on
\* tables; and whatever the catalog holds, the product name of every item
\* and the name of every add-on in an answer of GET /api/pedidos are the
\* values stored with that order when it was submitted.
SnapshotImmunity ==
  [][/\ \A r \in Reqs :
          (kind'[r] = "putProdutos" /\ pc'[r] # pc[r]) =>
            UNCHANGED <<pedidos, itens, comps>>
     /\ getResp'.code = 200 =>
          \A k \in DOMAIN getResp'.orders :
            \A n \in DOMAIN getResp'.orders[k].items :
              LET shown == getResp'.orders[k].items[n] IN
                /\ \E i \in itens' :
                     /\ i.id_pedido = getResp'.orders[k].orderId
                     /\ i.id_item_pedido = shown.id_item_pedido
                     /\ i.nome_produto = shown.name
                /\ \A m \in DOMAIN shown.complements :
                     \E c \in comps' :
                       /\ c.id_item_pedido = shown.id_item_pedido
                       /\ c.id_complemento_disponivel = shown.complements[m].id
                       /\ c.nome_complemento = shown.complements[m].name]_vars

\* C9 witness: a bulk replace has committed another catalog, and a GET still
\* answers order 1 with the item values submitted with it
CatalogReplacedOrderKept ==
  /\ \E r \in Reqs : kind[r] = "putProdutos" /\ resp[r] = 200
  /\ produtos # <<[id |-> 7, nome |-> "X", categoria |-> "A"]>>
  /\ getResp.code = 200
  /\ \E k \in DOMAIN getResp.orders :
       /\ getResp.orders[k].orderId = 1
       /\ getResp.orders[k].items[1].name = <<0, 1>>

\* the place in the rows of the first row of an item, and of an add-on of it
FirstRowOfItem(rows, item) ==
  CHOOSE j \in DOMAIN rows :
    /\ rows[j].id_item_pedido = item
    /\ \A h \in 1..(j - 1) : rows[h].id_item_pedido # item

FirstRowOfComp(rows, item, comp) ==
  CHOOSE j \in DOMAIN rows :
    /\ rows[j].id_item_pedido = item
    /\ rows[j].id_complemento_disponivel = comp
    /\ \A h \in 1..(j - 1) :
         ~(rows[h].id_item_pedido = item
             /\ rows[h].id_complemento_disponivel = comp)

\* C10: order of the listing.  The answer of GET /api/pedidos holds every
\* stored order exactly once, newest submission first, and inside an order
\* the items and the add-ons of an item stand in the order in which the rows
\* of the join first showed them.
ListingOrder ==
  getResp.code = 200 =>
    LET os == getResp.orders
        rows == getResp.rows IN
      /\ {os[k].orderId : k \in DOMAIN os} = StoredIds
      /\ \A j, k \in DOMAIN os : j < k =>
           /\ os[j].orderId # os[k].orderId
           /\ os[j].sentAt >= os[k].sentAt
      /\ \A k \in DOMAIN os : \A a, b \in DOMAIN os[k].items : a < b =>
           FirstRowOfItem(rows, os[k].items[a].id_item_pedido)
             < FirstRowOfItem(rows, os[k].items[b].id_item_pedido)
      /\ \A k \in DOMAIN os : \A n \in DOMAIN os[k].items :
           \A a, b \in DOMAIN os[k].items[n].complements : a < b =>
             FirstRowOfComp(rows, os[k].items[n].id_item_pedido,
                            os[k].items[n].complements[a].id)
               < FirstRowOfComp(rows, os[k].items[n].id_item_pedido,
                                os[k].items[n].complements[b].id)

\* C10 witness: the answer lists two orders placed at different times, one
\* of them with two items
ListedTwoOrders ==
  /\ getResp.code = 200
  /\ Len(getResp.orders) = 2
  /\ getResp.orders[1].sentAt > getResp.orders[2].sentAt
  /\ \E k \in DOMAIN getResp.orders : Len(getResp.orders[k].items) = 2

\* the status that the answer of the GET and the table hold for order o
StatusMatchesTable(answer) ==
  \A k \in DOMAIN answer.orders :
    \E p \in pedidos :
      /\ p.id_pedido = answer.orders[k].orderId
      /\ p.status = answer.orders[k].status

\* C11, amended: default status.  When a submission whose order id is not
\* stored yet commits, the header it stores has status 'pendente' if the
\* submission had no status field (or an empty one) and the submitted status
\* otherwise; and every answer of GET /api/pedidos shows each order with the
\* status the table holds for it.
DefaultStatusPendente ==
  [][/\ \A r \in Reqs :
          (kind[r] = "post" /\ pc[r] = "commit" /\ resp'[r] = 201
             /\ ~\E p \in pedidos : p.id_pedido = body[r].orderId) =>
            \E p \in pedidos' :
              /\ p.id_pedido = body[r].orderId
              /\ p.status = IF body[r].order.status = Absent
                              THEN "pendente" ELSE body[r].order.status
     /\ getResp'.code = 200 => StatusMatchesTable(getResp)']_vars

\* C11 witness: a GET answers with an order that a submission without a
\* status field has stored, and shows it as 'pendente'
DefaultStatusReadBack ==
  /\ getResp.code = 200
  /\ \E k \in DOMAIN getResp.orders :
       /\ getResp.orders[k].customerName \in Reqs
       /\ getResp.orders[k].status = "pendente"

\* C11, as claimed: every submission answered 201 leaves its order stored
\* with status "pending" if it had no status field, and with the submitted
\* status otherwise.
DefaultStatusPending ==
  [][\A r \in Reqs :
       (kind[r] = "post" /\ pc[r] = "commit" /\ resp'[r] = 201) =>
         \E p \in pedidos' :
           /\ p.id_pedido = body[r].orderId
           /\ p.status = IF body[r].order.status = Absent
                           THEN "pending" ELSE body[r].order.status]_vars

\* the rows of one category, in the order of the rows
RowsOf(rows, c) ==
  LET InCategory(x) == x.categoria = c IN SelectSeq(rows, InCategory)

\* the distinct categories of the rows in the order of first appearance
RECURSIVE FirstSeen(_)
FirstSeen(rows) ==
  IF rows = <<>> THEN <<>>
  ELSE LET Other(x) == x.categoria # Head(rows).categoria
       IN <<Head(rows).categoria>> \o FirstSeen(SelectSeq(Tail(rows), Other))

\* C12, as claimed: catalog grouping.  For any rows the SELECT returns, the
\* answer of GET /api/produtos is a mapping whose keys are the distinct
\* categories in order of first appearance, each with all the rows of that
\* category in their original relative order.
GroupedInFirstSeenOrder ==
  prodResp.code # Null =>
    /\ prodResp.code = 200
    /\ prodResp.grupos =
         [k \in 1..Len(FirstSeen(prodResp.rows)) |->
            [categoria |-> FirstSeen(prodResp.rows)[k],
             produtos |-> RowsOf(prodResp.rows, FirstSeen(prodResp.rows)[k])]]

\* request r commits a status batch in this step
CommitsBatch(r) ==
  kind[r] = "putPedidos" /\ pc[r] = "commit" /\ pc'[r] = "done"

\* C13: order lifecycle.  In every step each stored header stays stored
\* with the same id, customer values and submission time; its status
\* changes only in the COMMIT of a PUT /api/pedidos whose batch set a status
\* for that order id, and to that status; and a turn of the batch loop sets
\* a status for no other order id than the one its entry names.
Lifecycle ==
  [][/\ \A p \in pedidos :
          \E q \in pedidos' :
            /\ q.id_pedido = p.id_pedido
            /\ q.nome_cliente = p.nome_cliente
            /\ q.data_hora_envio = p.data_hora_envio
            /\ q.status # p.status =>
                 \E r \in Reqs :
                   /\ CommitsBatch(r)
                   /\ tx[r].status[p.id_pedido] # Absent
                   /\ q.status = tx[r].status[p.id_pedido]
     /\ \A r \in Reqs : \A o \in OrderIds :
          (pc[r] = "entries" /\ pc'[r] = "entries"
             /\ tx'[r].status[o] # tx[r].status[o]) =>
            o = body'[r].order.orderId]_vars

\* C13 witness: a status batch has committed and order 1 carries the new
\* status with the customer values and time it was created with
StatusChangedHeaderKept ==
  /\ \E r \in Reqs : kind[r] = "putPedidos" /\ resp[r] = 200
  /\ \E p \in pedidos :
       /\ p.id_pedido = 1
       /\ p.nome_cliente = 0
       /\ p.data_hora_envio = 1
       /\ p.status = "entregue"

\* the distinct values of a sequence in the order of first appearance
RECURSIVE Distinct(_)
Distinct(seq) ==
  IF seq = <<>> THEN <<>>
  ELSE LET Other(x) == x # Head(seq)
       IN <<Head(seq)>> \o Distinct(SelectSeq(Tail(seq), Other))

\* the ids of the orders, of the non-NULL items of order o and of the
\* non-NULL add-ons of item i of order o, row by row
OrderIdsOf(rows) == [j \in DOMAIN rows |-> rows[j].id_pedido]

ItemIdsOf(rows, o) ==
  LET Has(x) == x.id_pedido = o /\ x.id_item_pedido # Null
      sel == SelectSeq(rows, Has)
  IN [j \in DOMAIN sel |-> sel[j].id_item_pedido]

CompIdsOf(rows, o, i) ==
  LET Has(x) == /\ x.id_pedido = o
                /\ x.id_item_pedido = i
                /\ x.id_complemento_disponivel # Null
      sel == SelectSeq(rows, Has)
  IN [j \in DOMAIN sel |-> sel[j].id_complemento_disponivel]

\* C14: the reconstruction is a correct deduplication.  For every sequence
\* of join rows, the answer has one entry per distinct order id in
\* first-seen order, each entry one item per distinct non-NULL item id of
\* that order in first-seen order, and each item one add-on per distinct
\* non-NULL add-on id of that item in first-seen order; rows with a NULL
\* item or add-on id add none.
ReconstructDedups ==
  getResp.code = 200 =>
    LET rows == getResp.rows
        os == getResp.orders IN
      /\ [k \in DOMAIN os |-> os[k].orderId] = Distinct(OrderIdsOf(rows))
      /\ \A k \in DOMAIN os :
           /\ [n \in DOMAIN os[k].items |-> os[k].items[n].id_item_pedido]
                = Distinct(ItemIdsOf(rows, os[k].orderId))
           /\ \A n \in DOMAIN os[k].items :
                [m \in DOMAIN os[k].items[n].complements |->
                   os[k].items[n].complements[m].id]
                  = Distinct(CompIdsOf(rows, os[k].orderId,
                                       os[k].items[n].id_item_pedido))

\* C14 witness: rows of order 1 with a row of order 2 between them, order 2
\* with a NULL item, and an item of order 1 repeated for two add-ons
InterleavedRowsFolded ==
  /\ getResp.code = 200
  /\ Len(getResp.rows) = 3
  /\ getResp.rows[1].id_pedido = 1
  /\ getResp.rows[2].id_pedido = 2
  /\ getResp.rows[2].id_item_pedido = Null
  /\ getResp.rows[3].id_item_pedido = getResp.rows[1].id_item_pedido
  /\ Len(getResp.orders) = 2
  /\ Len(getResp.orders[1].items) = 1
  /\ Len(getResp.orders[1].items[1].complements) = 2
  /\ getResp.orders[2].items = <<>>

\* C15: the last committed status update wins.  The UPDATE of a valid entry
\* for a stored order leaves the entry's status pending in the transaction
\* of its request, and the COMMIT of a PUT /api/pedidos stores, for every
\* order its batch set, the status its batch set last, whatever other
\* requests have committed for that order before.
LastCommitWins ==
  [][\A r \in Reqs :
       /\ (kind[r] = "putPedidos" /\ pc[r] = "entries"
             /\ body'[r].turns = body[r].turns + 1
             /\ EntryValid(body'[r].order)
             /\ body'[r].order.orderId \in StoredIds) =>
            tx'[r].status[body'[r].order.orderId] = body'[r].order.status
       /\ CommitsBatch(r) =>
            \A o \in OrderIds : tx[r].status[o] # Absent =>
              \E p \in pedidos' :
                p.id_pedido = o /\ p.status = tx[r].status[o]]_vars

\* C15 witness: one batch has committed 'pronto' for order 1 and another
\* request, which has set 'entregue' for the same order, is about to commit
SecondStatusWriter ==
  \E r, q \in Reqs :
    /\ kind[r] = "putPedidos" /\ resp[r] = 200
    /\ \E p \in pedidos : p.id_pedido = 1 /\ p.status = "pronto"
    /\ kind[q] = "putPedidos" /\ pc[q] = "commit"
    /\ tx[q].status[1] = "entregue"

\* C17, as claimed: malformed order payload.  A POST /api/pedidos whose body
\* lacks deliveryOption, the items list or the complements list of an item
\* leaves its catch block answered 500, never 201, with its transaction
\* rolled back.
MalformedAnswered500 ==
  [][\A r \in Reqs :
       (kind[r] = "post" /\ pc[r] = "rollback" /\ body[r].threw = "malformed"
          /\ pc'[r] \in {"done", "crashed"}) =>
         (resp'[r] = 500 /\ tx'[r] = EmptyTx
            /\ UNCHANGED <<pedidos, itens, comps>>)]_vars

\* C18, as claimed: every request gets exactly one answer.  A POST
\* /api/pedidos or PUT /api/pedidos whose handler has ended, whichever step
\* failed (getClient, BEGIN, a statement, COMMIT or the ROLLBACK of the
\* catch block), has been answered; and it has been answered 201 or 200
\* only by the step that follows a successful COMMIT.
EveryRequestAnswered ==
  [][\A r \in Reqs :
       /\ (kind'[r] \in {"post", "putPedidos"}
             /\ pc'[r] \in {"done", "crashed", "noclient"}) =>
            resp'[r] \in {200, 201, 500}
       /\ (resp'[r] \in {200, 201} /\ resp[r] = Null) =>
            (pc[r] = "commit" /\ pc'[r] = "done")]_vars

\* C19: ownership in the order tree.  In every committed state each item
\* row carries the id of a stored order header, and each add-on row carries
\* the id of a stored item row that the same request inserted, at the place
\* of its list the add-on was sent under.
Ownership ==
  /\ \A i \in itens : \E p \in pedidos : p.id_pedido = i.id_pedido
  /\ \A c \in comps :
       \E i \in itens :
         /\ i.id_item_pedido = c.id_item_pedido
         /\ i.nome_produto = <<c.nome_complemento[1], c.nome_complemento[2]>>
  /\ \A i, j \in itens : i.id_item_pedido = j.id_item_pedido => i = j

\* C19 witness: both requests have committed an order, one of them with an
\* add-on on its item
TwoTreesStored ==
  /\ \A r \in Reqs : kind[r] = "post" /\ resp[r] = 201
  /\ \A r \in Reqs : \E i \in itens : i.nome_produto[1] = r
  /\ \E c \in comps : c.nome_complemento[1] \in Reqs

\* C20: a failed catalog replace keeps the old catalog.  A PUT /api/produtos
\* that leaves its catch block, after TRUNCATE and any number of inserts,
\* leaves the committed product table as it was and its transaction rolled
\* back; the table changes only in the COMMIT of a PUT /api/produtos
\* answered 200, and then holds exactly the products read from the body of
\* that request, in the categories they were listed under.
CatalogReplacedWhole ==
  [][\A r \in Reqs :
       /\ (kind[r] = "putProdutos" /\ pc[r] = "rollback"
             /\ pc'[r] # "rollback") =>
            (produtos' = produtos /\ tx'[r] = EmptyTx)
       /\ (kind[r] = "putProdutos" /\ pc[r] = "commit" /\ pc'[r] = "done") =>
            (resp'[r] = 200 /\ produtos' = body[r].products)
       /\ produtos' # produtos =>
            \E q \in Reqs :
              kind[q] = "putProdutos" /\ pc[q] = "commit" /\ pc'[q] = "done"]_vars

\* C20 witness: a replace has truncated the table and inserted a product,
\* and a later statement of it has failed
ReplaceFailedPartway ==
  \E r \in Reqs :
    /\ kind[r] = "putProdutos"
    /\ pc[r] = "rollback"
    /\ body[r].threw \in {"query", "commit"}
    /\ tx[r].truncated
    /\ Len(tx[r].produtos) >= 1
    /\ produtos # <<>>

====
